---- MODULE Spec2Model ----
(***************************************************************************)
(* Resume matching chatbot: the vector index (app/embeddings.py) and the   *)
(* search / upload / delete handlers with their helpers (app/main.py).     *)
(*                                                                         *)
(* Conventions of the model                                                *)
(*  - a text (a message or a resume's raw_text) is a sequence of           *)
(*    one-character strings;                                               *)
(*  - an Optional value is None (the empty sequence) or Some(x) == <<x>>;  *)
(*  - a float is an integer count of 1/SimScale units (similarities) or an *)
(*    exact fraction <<numerator, denominator>> (skill match, final        *)
(*    score); rounding is round-half-even on the exact value;              *)
(*  - list positions handed out by a faiss index are 0-based, as in the    *)
(*    code, and -1 is the label faiss gives a result slot it cannot fill.  *)
(***************************************************************************)
EXTENDS Integers, Sequences, FiniteSets, TLC

VARIABLES
    db,            \* the resumes table: id -> [raw_text, skills, years_experience]
    faiss_index,   \* embeddings.faiss_index: None or Some([xb |-> vectors])
    id_map,        \* embeddings.id_map: list of resume ids
    last_build,    \* the path the most recent build_index call took
    resp,          \* the last handler run, its inputs, locals and response
    pc,            \* concurrent runs: each thread's position
    loc,           \* concurrent runs: each thread's locals
    built_by,      \* concurrent runs: which build_index call wrote each global
    call,          \* pure-function runs: the function applied and its arguments
    ret            \* pure-function runs: the value it returned

vars == <<db, faiss_index, id_map, last_build, resp, pc, loc, built_by, call, ret>>

-----------------------------------------------------------------------------
(* Bounds of the model *)

MaxId == 3
MaxTopK == 2
MaxListLen == 3
MaxTokens == 3

-----------------------------------------------------------------------------
(* Values *)

None == <<>>
Some(x) == <<x>>

SimScale == 100000

\* The score faiss puts in a result slot it cannot fill (the lowest float,
\* -3.4028235e38); here a value far below -1.0 that keeps 32-bit arithmetic exact.
FLT_LOWEST == 0 - 3402823

Raised == <<"raised">>

-----------------------------------------------------------------------------
(* Sequences and sets *)

Range(s) == {s[i] : i \in 1..Len(s)}

Max(S) == CHOOSE x \in S : \A y \in S : y <= x

Min(S) == CHOOSE x \in S : \A y \in S : x <= y

RECURSIVE SortedSeq(_)
SortedSeq(S) ==
    IF S = {} THEN <<>> ELSE <<Min(S)>> \o SortedSeq(S \ {Min(S)})

RECURSIVE Concat(_)
Concat(ss) == IF ss = <<>> THEN <<>> ELSE Head(ss) \o Concat(Tail(ss))

\* Python's `sub in text` on strings.
Contains(sub, text) ==
    \E i \in 0..(Len(text) - Len(sub)) :
        \A j \in 1..Len(sub) : text[i + j] = sub[j]

\* Python's list[idx] with an int that may be negative.
PyIndexOk(list, idx) == idx < Len(list) /\ idx >= 0 - Len(list)

PyIndex(list, idx) == IF idx >= 0 THEN list[idx + 1] ELSE list[Len(list) + idx + 1]

\* round(num/den) to the nearest integer, ties to even (den > 0).
RoundDiv(num, den) ==
    LET q == num \div den
        r == num % den
    IN  IF 2 * r < den THEN q
        ELSE IF 2 * r > den THEN q + 1
        ELSE IF q % 2 = 0 THEN q ELSE q + 1

-----------------------------------------------------------------------------
(* Texts *)

Sp == <<" ">>
W_python == <<"p", "y", "t", "h", "o", "n">>
W_flask == <<"f", "l", "a", "s", "k">>
W_fastapi == <<"f", "a", "s", "t", "a", "p", "i">>
W_react == <<"r", "e", "a", "c", "t">>
W_node == <<"n", "o", "d", "e">>
W_aws == <<"a", "w", "s">>
W_docker == <<"d", "o", "c", "k", "e", "r">>
W_year == <<"y", "e", "a", "r">>
W_years == <<"y", "e", "a", "r", "s">>
W_YEARS == <<"Y", "E", "A", "R", "S">>
W_Python == <<"P", "y", "t", "h", "o", "n">>
W_need == <<"n", "e", "e", "d">>
W_a == <<"a">>
W_developer == <<"d", "e", "v", "e", "l", "o", "p", "e", "r">>
W_with == <<"w", "i", "t", "h">>
W_experience == <<"e", "x", "p", "e", "r", "i", "e", "n", "c", "e">>
W_in == <<"i", "n">>
W_and == <<"a", "n", "d">>

\* "need a developer with 5 years experience in react and node"
MsgExample ==
    Concat(<<W_need, Sp, W_a, Sp, W_developer, Sp, W_with, Sp, <<"5">>, Sp,
             W_years, Sp, W_experience, Sp, W_in, Sp, W_react, Sp, W_and, Sp,
             W_node>>)

\* "Python docker 3 years"
MsgPyDocker3 == Concat(<<W_Python, Sp, W_docker, Sp, <<"3">>, Sp, W_years>>)

\* "react"
MsgReact == W_react

\* ""
MsgEmpty == <<>>

Messages == {MsgPyDocker3, MsgReact, MsgEmpty}

\* The resumes a recruiter uploads: the raw text and the fields stored with it.
\* years_experience is nullable in the table (models.py) and defaults to None
\* in add_resume.
CvA == <<"c", "v", "A">>
CvB == <<"c", "v", "B">>
CvC == <<"c", "v", "C">>
CvD == <<"c", "v", "D">>

ResumePool ==
    { [raw_text |-> CvA, skills |-> {W_python, W_aws}, years_experience |-> Some(5)],
      [raw_text |-> CvB, skills |-> {W_python, W_aws}, years_experience |-> Some(2)],
      [raw_text |-> CvC, skills |-> {W_python, W_docker, W_react},
       years_experience |-> None],
      [raw_text |-> CvD, skills |-> {}, years_experience |-> Some(3)] }

-----------------------------------------------------------------------------
(* Embedding provider: embed_model.encode(..., normalize_embeddings=True) *)

\* A unit vector is named by the text it embeds: the model is fixed and
\* deterministic, so equal texts give the same vector.
Embed(text) == <<"unit", text>>

\* Inner products of the unit vectors above, in 1/SimScale units.
InnerProductTable ==
    <<  <<MsgPyDocker3, CvA, 80000>>, <<MsgPyDocker3, CvB, 90000>>,
        <<MsgPyDocker3, CvC, 70000>>, <<MsgPyDocker3, CvD, 60000>>,
        <<MsgReact, CvA, 50000>>, <<MsgReact, CvB, 50001>>,
        <<MsgReact, CvC, 100000>>, <<MsgReact, CvD, 0>>,
        <<MsgEmpty, CvA, 0 - 20000>>, <<MsgEmpty, CvB, 30000>>,
        <<MsgEmpty, CvC, 100000>>, <<MsgEmpty, CvD, 0>> >>

InnerProduct(q_vec, x_vec) ==
    LET i == CHOOSE i \in 1..Len(InnerProductTable) :
                 /\ InnerProductTable[i][1] = q_vec[2]
                 /\ InnerProductTable[i][2] = x_vec[2]
    IN  InnerProductTable[i][3]

-----------------------------------------------------------------------------
(* Query interpreter: simple_extract_requirements *)

UpperCase == <<"A", "B", "C", "D", "E", "F", "G", "H", "I", "J", "K", "L", "M",
               "N", "O", "P", "Q", "R", "S", "T", "U", "V", "W", "X", "Y", "Z">>
LowerCase == <<"a", "b", "c", "d", "e", "f", "g", "h", "i", "j", "k", "l", "m",
               "n", "o", "p", "q", "r", "s", "t", "u", "v", "w", "x", "y", "z">>

LowerChar(c) ==
    IF \E i \in 1..Len(UpperCase) : UpperCase[i] = c
    THEN LowerCase[CHOOSE i \in 1..Len(UpperCase) : UpperCase[i] = c]
    ELSE c

\* str.lower()
Lower(text) == [i \in 1..Len(text) |-> LowerChar(text[i])]

Keywords == <<W_python, W_flask, W_fastapi, W_react, W_node, W_aws, W_docker>>

DigitChars == <<"0", "1", "2", "3", "4", "5", "6", "7", "8", "9">>

\* f"{y}" for y >= 0
RECURSIVE DecStr(_)
DecStr(y) ==
    IF y < 10 THEN <<DigitChars[y + 1]>>
    ELSE DecStr(y \div 10) \o <<DigitChars[(y % 10) + 1]>>

YearsFrom == 1
YearsStop == 16

\* for kw in [...]: if kw in text: must_have.append(kw)
RECURSIVE KeywordLoop(_, _)
KeywordLoop(text, kws) ==
    IF kws = <<>> THEN <<>>
    ELSE (IF Contains(Head(kws), text) THEN <<Head(kws)>> ELSE <<>>)
         \o KeywordLoop(text, Tail(kws))

YearMatches(text, y) ==
    \/ Contains(DecStr(y) \o Sp \o W_year, text)
    \/ Contains(DecStr(y) \o Sp \o W_years, text)

\* for y in range(1, 16): if ...: min_years = y
RECURSIVE YearsLoop(_, _, _)
YearsLoop(text, y, min_years) ==
    IF y >= YearsStop THEN min_years
    ELSE YearsLoop(text, y + 1, IF YearMatches(text, y) THEN y ELSE min_years)

\* The loop gone wrong: it stops at the first y that matches.
RECURSIVE YearsLoopFirst(_, _, _)
YearsLoopFirst(text, y, min_years) ==
    IF y >= YearsStop THEN min_years
    ELSE IF YearMatches(text, y) THEN y
    ELSE YearsLoopFirst(text, y + 1, min_years)

ExtractMinYearsFirst(text) == YearsLoopFirst(text, YearsFrom, 0)

ExtractMinYears(text) == YearsLoop(text, YearsFrom, 0)

simple_extract_requirements(message) ==
    LET text == Lower(message)
    IN  [must_have_skills |-> KeywordLoop(text, Keywords),
         min_years |-> ExtractMinYears(text)]

-----------------------------------------------------------------------------
(* Reranker helpers: compute_skill_match, build_explanation *)

\* set(list): the elements, each once.
RECURSIVE PySet(_)
PySet(list) == IF list = <<>> THEN {} ELSE {Head(list)} \cup PySet(Tail(list))

\* The ratio with the requirement list not deduplicated.
compute_skill_match_nodedup(skills, must_have_skills) ==
    IF must_have_skills = <<>> THEN <<1, 1>>
    ELSE <<Cardinality(PySet(must_have_skills) \cap skills), Len(must_have_skills)>>

\* The fraction len(overlap) / len(must), or 1.0
compute_skill_match(skills, must_have_skills) ==
    LET must == PySet(must_have_skills)
    IN  IF must = {} THEN <<1, 1>>
        ELSE <<Cardinality(must \cap skills), Cardinality(must)>>

build_explanation(skills, must_have_skills, sim_score, skill_match_score) ==
    LET matched == SelectSeq(must_have_skills, LAMBDA s : s \in skills)
        missing == SelectSeq(must_have_skills, LAMBDA s : s \notin Range(matched))
    IN  [matched |-> matched,
         missing |-> missing,
         similarity |-> RoundDiv(sim_score * 100, SimScale),
         skill_match |-> RoundDiv(skill_match_score[1] * 100, skill_match_score[2])]

-----------------------------------------------------------------------------
(* Vector index: faiss.IndexFlatIP, build_index, search_similar *)

\* IndexFlatIP.search on the stored vectors xb: the k best inner products in
\* descending order, as (score, 0-based position); a slot with no vector
\* left to fill it holds (lowest float, -1).  Equal scores are taken in
\* position order.
RECURSIVE TopHits(_, _, _, _)
TopHits(xb, q_vec, rest, k) ==
    IF k <= 0 THEN <<>>
    ELSE IF rest = {}
    THEN <<[score |-> FLT_LOWEST, idx |-> 0 - 1]>> \o TopHits(xb, q_vec, {}, k - 1)
    ELSE LET best == CHOOSE i \in rest : \A j \in rest :
                        \/ InnerProduct(q_vec, xb[i]) > InnerProduct(q_vec, xb[j])
                        \/ /\ InnerProduct(q_vec, xb[i]) = InnerProduct(q_vec, xb[j])
                           /\ i <= j
         IN  <<[score |-> InnerProduct(q_vec, xb[best]), idx |-> best - 1]>>
             \o TopHits(xb, q_vec, rest \ {best}, k - 1)

FaissSearch(index, q_vec, k) == TopHits(index.xb, q_vec, 1..Len(index.xb), k)

\* db.query(Resume).all(): the rows in primary-key order.
QueryAll(d) == SortedSeq(DOMAIN d)

BuildOutcomes == {"ok", "encode_raises", "commit_raises"}

\* build_index run to completion on table d with the globals fi, im:
\* the globals after it, the path it took and whether it raised.
build_index(d, fi, im, outcome) ==
    LET resumes == QueryAll(d)
    IN  IF resumes = <<>>
        THEN [faiss_index |-> fi, id_map |-> im, last_build |-> "empty",
              raised |-> FALSE]
        ELSE IF outcome = "encode_raises"
        THEN [faiss_index |-> fi, id_map |-> resumes, last_build |-> "encode_raised",
              raised |-> TRUE]
        ELSE [faiss_index |->
                  Some([xb |-> [i \in 1..Len(resumes) |-> Embed(d[resumes[i]].raw_text)]]),
              id_map |-> resumes,
              last_build |-> IF outcome = "commit_raises" THEN "commit_raised" ELSE "built",
              raised |-> outcome = "commit_raises"]

\* Lines 40-46 of search_similar: query the index, translate positions to ids.
SearchLoop(index, im, query_text, top_k) ==
    LET hits == FaissSearch(index, Embed(query_text), top_k)
    IN  IF \E i \in 1..Len(hits) : ~PyIndexOk(im, hits[i].idx)
        THEN Raised
        ELSE [i \in 1..Len(hits) |-> <<PyIndex(im, hits[i].idx), hits[i].score>>]

\* search_similar that goes straight to the index.
search_similar_unguarded(d, fi, im, lb, query_text, top_k, outcome) ==
    [faiss_index |-> fi, id_map |-> im, last_build |-> lb, built_here |-> FALSE,
     result |-> IF fi = None THEN Raised ELSE SearchLoop(fi[1], im, query_text, top_k)]

\* search_similar run to completion: the globals after it and what it returned.
search_similar(d, fi, im, lb, query_text, top_k, outcome) ==
    LET b == IF fi = None
             THEN build_index(d, fi, im, outcome)
             ELSE [faiss_index |-> fi, id_map |-> im, last_build |-> lb,
                   raised |-> FALSE]
    IN  [faiss_index |-> b.faiss_index,
         id_map |-> b.id_map,
         last_build |-> b.last_build,
         built_here |-> fi = None,
         result |-> IF b.raised THEN Raised
                    ELSE IF b.faiss_index = None THEN <<>>
                    ELSE SearchLoop(b.faiss_index[1], b.id_map, query_text, top_k)]

-----------------------------------------------------------------------------
(* Reranker: the body of the /search handler *)

SimWeight == 6
SkillWeight == 4
WeightDen == 10
PctScale == 10000

\* 0.4 * sim_score + 0.6 * skill_match: the weights exchanged.
FinalScoreSwapped(sim_score, skill_match) ==
    <<SkillWeight * sim_score * skill_match[2] + SimWeight * skill_match[1] * SimScale,
      WeightDen * SimScale * skill_match[2]>>

\* 0.6 * sim_score + 0.4 * skill_match, as an exact fraction
FinalScore(sim_score, skill_match) ==
    <<SimWeight * sim_score * skill_match[2] + SkillWeight * skill_match[1] * SimScale,
      WeightDen * SimScale * skill_match[2]>>

\* round(x * 100, 2) of the fraction x, in hundredths
RoundPct(x) ==
    IF x[2] % PctScale = 0
    THEN RoundDiv(x[1], x[2] \div PctScale)
    ELSE RoundDiv(x[1] * PctScale, x[2])

\* The filter with <= for <.
ExperienceExcludedLe(years_experience, min_years) ==
    /\ min_years # 0
    /\ years_experience # None
    /\ years_experience[1] <= min_years

\* min_years and r.years_experience is not None and r.years_experience < min_years
ExperienceExcluded(years_experience, min_years) ==
    /\ min_years # 0
    /\ years_experience # None
    /\ years_experience[1] < min_years

\* id_to_sim = {r_id: score for ...}: a later pair replaces an earlier one.
IdToSim(semantic_results) ==
    [id \in {semantic_results[i][1] : i \in 1..Len(semantic_results)} |->
        semantic_results[Max({i \in 1..Len(semantic_results) :
                                 semantic_results[i][1] = id})][2]]

\* id_to_sim.get(r.id, 0.0)
SimOf(semantic_results, id) ==
    IF id \in DOMAIN IdToSim(semantic_results) THEN IdToSim(semantic_results)[id] ELSE 0

\* A query that yields one row for each element of ids that is stored.
QueryInPerId(d, ids) == SelectSeq(ids, LAMBDA id : id \in DOMAIN d)

\* db.query(Resume).filter(Resume.id.in_(ids)).all(): the stored rows whose
\* id is in the list ids, each once, in primary-key order.
QueryIn(d, ids) == SortedSeq({id \in DOMAIN d : id \in Range(ids)})

\* One turn of the loop over resumes: the ResumeOut built for row id,
\* with the locals it was built from.
Score(d, id, must_have, semantic_results) ==
    LET skill_match == compute_skill_match(d[id].skills, must_have)
        sim_score == SimOf(semantic_results, id)
        final_score == FinalScore(sim_score, skill_match)
    IN  [id |-> id,
         years_experience |-> d[id].years_experience,
         sim_score |-> sim_score,
         skill_match |-> skill_match,
         final_score |-> final_score,
         match_score |-> RoundPct(final_score),
         skill_match_score |-> RoundPct(skill_match),
         explanation |-> build_explanation(d[id].skills, must_have, sim_score,
                                           skill_match)]

RECURSIVE RerankLoop(_, _, _, _)
RerankLoop(d, resumes, req, semantic_results) ==
    IF resumes = <<>> THEN <<>>
    ELSE (IF ExperienceExcluded(d[Head(resumes)].years_experience, req.min_years)
          THEN <<>>
          ELSE <<Score(d, Head(resumes), req.must_have_skills, semantic_results)>>)
         \o RerankLoop(d, Tail(resumes), req, semantic_results)

\* list.insert keeping descending keys, after the elements of equal key
InsertDesc(sorted, x) ==
    LET n == Cardinality({i \in 1..Len(sorted) : sorted[i].match_score >= x.match_score})
    IN  SubSeq(sorted, 1, n) \o <<x>> \o SubSeq(sorted, n + 1, Len(sorted))

\* sorted(out, key=lambda x: x.match_score, reverse=True): stable
RECURSIVE SortedByMatchScore(_)
SortedByMatchScore(out) ==
    IF out = <<>> THEN <<>>
    ELSE InsertDesc(SortedByMatchScore(SubSeq(out, 1, Len(out) - 1)), out[Len(out)])

\* out_sorted[:top_k + 1]: the slice one element too long.
TruncateInclusive(out_sorted, top_k) ==
    SubSeq(out_sorted, 1,
           IF top_k + 1 < Len(out_sorted) THEN top_k + 1 ELSE Len(out_sorted))

\* out_sorted[:top_k] for top_k >= 0
Truncate(out_sorted, top_k) ==
    SubSeq(out_sorted, 1, IF top_k < Len(out_sorted) THEN top_k ELSE Len(out_sorted))

OversampleFactor == 3

-----------------------------------------------------------------------------
(* Record store: add_resume, dedupe_resumes *)

EmptyTable == [id \in {} |-> None]

\* The primary keys the database may give the next row: above every key in use.
NewIds(d) == {id \in 1..MaxId : \A other \in DOMAIN d : other < id}

add_resume(d, id, resume) ==
    [i \in DOMAIN d \cup {id} |-> IF i = id THEN resume ELSE d[i]]

\* Keep the row of least id for each raw_text.
dedupe_resumes(d) ==
    LET keep == {id \in DOMAIN d :
                    \A other \in DOMAIN d : d[other].raw_text = d[id].raw_text => id <= other}
    IN  [id \in keep |-> d[id]]

DeleteRow(d, resume_id) == [id \in DOMAIN d \ {resume_id} |-> d[id]]

-----------------------------------------------------------------------------
(* The handlers, one request at a time *)

NoSearch ==
    [message |-> <<>>, top_k |-> 0, req |-> [must_have_skills |-> <<>>, min_years |-> 0],
     index_was_none |-> FALSE, built_here |-> FALSE,
     semantic_results |-> <<>>, resumes |-> <<>>, out |-> <<>>, results |-> <<>>]

Idle == [op |-> "none", failed |-> FALSE, search |-> NoSearch]

NoThreads == <<>>

\* The globals as the module defines them and an empty table; startup_event
\* (dedupe_resumes, build_index) over an empty table changes none of them.
Init ==
    /\ db = EmptyTable
    /\ faiss_index = None
    /\ id_map = <<>>
    /\ last_build = "none"
    /\ resp = Idle
    /\ pc = NoThreads
    /\ loc = NoThreads
    /\ built_by = NoThreads
    /\ call = <<>>
    /\ ret = <<>>

\* POST /upload_resume with a file that passes the checks
UploadResume(file, id, outcome) ==
    /\ id \in NewIds(db)
    /\ LET stored == dedupe_resumes(add_resume(db, id, file))
           b == build_index(stored, faiss_index, id_map, outcome)
       IN  /\ db' = stored
           /\ faiss_index' = b.faiss_index
           /\ id_map' = b.id_map
           /\ last_build' = b.last_build
           /\ resp' = [op |-> "upload_resume", failed |-> b.raised, search |-> NoSearch]
    /\ UNCHANGED <<pc, loc, built_by, call, ret>>

\* POST /upload_resume with an unsupported, empty or too short file
UploadRejected ==
    /\ resp' = [op |-> "upload_rejected", failed |-> TRUE, search |-> NoSearch]
    /\ UNCHANGED <<db, faiss_index, id_map, last_build, pc, loc, built_by, call, ret>>

\* POST /delete_resume/{resume_id} of a stored resume
DeleteResume(resume_id, outcome) ==
    /\ resume_id \in DOMAIN db
    /\ LET stored == DeleteRow(db, resume_id)
           b == build_index(stored, faiss_index, id_map, outcome)
       IN  /\ db' = stored
           /\ faiss_index' = b.faiss_index
           /\ id_map' = b.id_map
           /\ last_build' = b.last_build
           /\ resp' = [op |-> "delete_resume", failed |-> b.raised, search |-> NoSearch]
    /\ UNCHANGED <<pc, loc, built_by, call, ret>>

\* POST /delete_resume/{resume_id} of an id that is not stored
DeleteMissing(resume_id) ==
    /\ resume_id \notin DOMAIN db
    /\ resp' = [op |-> "delete_resume", failed |-> TRUE, search |-> NoSearch]
    /\ UNCHANGED <<db, faiss_index, id_map, last_build, pc, loc, built_by, call, ret>>

\* The locals and the response of the /search handler
SearchBody(message, top_k, s) ==
    LET req == simple_extract_requirements(message)
        semantic_results == s.result
        ids == [i \in 1..Len(semantic_results) |-> semantic_results[i][1]]
        resumes == QueryIn(db, ids)
        out == RerankLoop(db, resumes, req, semantic_results)
        out_sorted == SortedByMatchScore(out)
    IN  [message |-> message, top_k |-> top_k, req |-> req,
         index_was_none |-> faiss_index = None, built_here |-> s.built_here,
         semantic_results |-> semantic_results,
         resumes |-> IF s.result = Raised THEN <<>> ELSE resumes,
         out |-> IF s.result = Raised THEN <<>> ELSE out,
         results |-> IF s.result = Raised THEN <<>> ELSE Truncate(out_sorted, top_k)]

\* POST /search
Search(message, top_k, outcome) ==
    /\ LET s == search_similar(db, faiss_index, id_map, last_build, message,
                               top_k * OversampleFactor, outcome)
       IN  /\ faiss_index' = s.faiss_index
           /\ id_map' = s.id_map
           /\ last_build' = s.last_build
           /\ resp' = [op |-> "search", failed |-> s.result = Raised,
                       search |-> SearchBody(message, top_k, s)]
    /\ UNCHANGED <<db, pc, loc, built_by, call, ret>>

Next ==
    \/ \E file \in ResumePool, id \in 1..MaxId : UploadResume(file, id, "ok")
    \/ UploadRejected
    \/ \E resume_id \in 1..MaxId : DeleteResume(resume_id, "ok")
    \/ \E resume_id \in 1..MaxId : DeleteMissing(resume_id)
    \/ \E message \in Messages, top_k \in 1..MaxTopK : Search(message, top_k, "ok")

\* The handlers one request at a time, the embedding provider and the database
\* never failing.
Spec == Init /\ [][Next]_vars

\* The resumes and messages of the runs in which build_index may raise.
FaultPool == {r \in ResumePool : r.raw_text \in {CvA, CvB}}

FaultMessages == {MsgReact}

NextFaults ==
    \/ \E file \in FaultPool, id \in 1..MaxId, outcome \in BuildOutcomes :
           UploadResume(file, id, outcome)
    \/ UploadRejected
    \/ \E resume_id \in 1..MaxId, outcome \in BuildOutcomes :
           DeleteResume(resume_id, outcome)
    \/ \E resume_id \in 1..MaxId : DeleteMissing(resume_id)
    \/ \E message \in FaultMessages, top_k \in 1..MaxTopK, outcome \in BuildOutcomes :
           Search(message, top_k, outcome)

\* The handlers one request at a time, where encode or commit inside
\* build_index may raise.
SpecFaults == Init /\ [][NextFaults]_vars

-----------------------------------------------------------------------------
(* Claims about the handlers run one at a time *)

Searched == resp.op = "search" /\ ~resp.failed

SemanticIds ==
    {resp.search.semantic_results[i][1] : i \in 1..Len(resp.search.semantic_results)}

Occurrences(id) ==
    Cardinality({i \in 1..Len(resp.search.semantic_results) :
                    resp.search.semantic_results[i][1] = id})

\* C1: when the most recent build_index ran over an empty table, a search
\* gets an empty list from search_similar, also when an index had been built
\* before.
C1_EmptyRebuildEmptiesIndex ==
    (Searched /\ last_build = "empty") => resp.search.semantic_results = <<>>

\* C2: after build_index over a non-empty table of n rows, search_similar
\* with k >= n returns every stored id exactly once and no id twice.
C2_EveryIdExactlyOnce ==
    ( /\ Searched
      /\ last_build = "built"
      /\ DOMAIN db # {}
      /\ resp.search.top_k * OversampleFactor >= Cardinality(DOMAIN db) )
    => /\ \A id \in DOMAIN db : Occurrences(id) = 1
       /\ \A id \in SemanticIds : Occurrences(id) = 1

\* C4: the similarity that scores and explains a returned candidate is the
\* inner product of the query with that candidate's vector, a value in [-1, 1].
C4_SimilarityIsIndexScore ==
    Searched =>
        \A i \in 1..Len(resp.search.results) :
            LET r == resp.search.results[i]
            IN  /\ r.sim_score =
                     InnerProduct(Embed(resp.search.message), Embed(db[r.id].raw_text))
                /\ r.sim_score >= 0 - SimScale
                /\ r.sim_score <= SimScale
                /\ r.explanation.similarity = RoundDiv(r.sim_score * 100, SimScale)

\* x < y for the final scores of two results (the common factor
\* WeightDen * SimScale of the denominators cancelled)
FinalLess(r1, r2) ==
    r1.final_score[1] * r2.skill_match[2] < r2.final_score[1] * r1.skill_match[2]

\* C5: the results are in descending order of the unrounded final score, and
\* results of equal final score in ascending order of id.
C5_SortedByFullPrecision ==
    Searched =>
        \A i, j \in 1..Len(resp.search.results) :
            i < j =>
                LET a == resp.search.results[i]
                    b == resp.search.results[j]
                IN  \/ FinalLess(b, a)
                    \/ (~FinalLess(a, b) /\ a.id < b.id)

OutIds == {resp.search.out[i].id : i \in 1..Len(resp.search.out)}

ResultIds == {resp.search.results[i].id : i \in 1..Len(resp.search.results)}

BelowThreshold(id) ==
    /\ resp.search.req.min_years > 0
    /\ db[id].years_experience # None
    /\ db[id].years_experience[1] < resp.search.req.min_years

\* C6: a retrieved candidate is dropped by the experience filter if and only
\* if min_years > 0 and its years are known and strictly below min_years; a
\* dropped candidate is in no result.
C6_ExperienceFilter ==
    Searched =>
        /\ \A id \in Range(resp.search.resumes) : (id \notin OutIds) <=> BelowThreshold(id)
        /\ \A id \in ResultIds : ~BelowThreshold(id)
        /\ Range(resp.search.resumes) = SemanticIds \cap DOMAIN db

\* C6 witness: a search with a threshold that drops one candidate and keeps
\* one of unknown years and one whose years equal the threshold.
C6_Witness ==
    /\ Searched
    /\ resp.search.req.min_years = 3
    /\ \E id \in Range(resp.search.resumes) : BelowThreshold(id)
    /\ \E id \in OutIds : db[id].years_experience = None
    /\ \E id \in OutIds : db[id].years_experience = Some(3)

\* C9: final score = 0.6 * similarity + 0.4 * skill match for every returned
\* candidate, exactly 1.0 for (1.0, 1.0) and 0.0 for (0.0, 0.0), and
\* match_score is it times 100 rounded to 2 decimals.
C9_FinalScoreBlend ==
    Searched =>
        \A i \in 1..Len(resp.search.results) :
            LET r == resp.search.results[i]
                s == r.sim_score
                a == r.skill_match[1]
                b == r.skill_match[2]
                blend == 6 * s * b + 4 * a * SimScale   \* times 10 * SimScale * b
            IN  /\ r.final_score[2] = 10 * SimScale * b
                /\ r.final_score[1] = blend
                /\ r.match_score = RoundDiv(blend, b * (SimScale \div 1000))
                /\ r.explanation.similarity = RoundDiv(s * 100, SimScale)
                /\ r.explanation.skill_match = RoundDiv(a * 100, b)
                /\ (s = SimScale /\ a = b) =>
                       (r.final_score[1] = r.final_score[2] /\ r.match_score = 10000)
                /\ (s = 0 /\ a = 0) => (r.final_score[1] = 0 /\ r.match_score = 0)

\* C9 witness: one response holding a candidate of similarity 1.0 and skill
\* match 1.0 and a candidate of similarity 0.0 and skill match 0.0.
C9_Witness ==
    /\ Searched
    /\ \E i \in 1..Len(resp.search.results) :
           /\ resp.search.results[i].sim_score = SimScale
           /\ resp.search.results[i].skill_match[1] = resp.search.results[i].skill_match[2]
    /\ \E i \in 1..Len(resp.search.results) :
           /\ resp.search.results[i].sim_score = 0
           /\ resp.search.results[i].skill_match[1] = 0

\* C11: the /search handler returns at most top_k results, whatever the
\* message and the stored resumes; a search that failed returns none.
C11_AtMostTopK ==
    resp.op = "search" =>
        /\ Len(resp.search.results) <= resp.search.top_k
        /\ resp.search.results = SubSeq(SortedByMatchScore(resp.search.out), 1,
                                        Len(resp.search.results))
        /\ resp.failed => resp.search.results = <<>>

\* C11 witness: a search whose reranked candidates outnumber top_k = 2 and
\* whose response holds exactly 2 of them.
C11_Witness ==
    /\ Searched
    /\ resp.search.top_k = 2
    /\ Len(resp.search.out) > resp.search.top_k
    /\ Len(resp.search.results) = resp.search.top_k

\* C13: with the requests run one at a time, every result of a search is a
\* record stored at the time of that search, shown with that record's data,
\* and no record is in the result list twice; a resume that delete_resume
\* removed is in no later result, also while the index still holds its id.
C13_ResultsAreStoredRecords ==
    resp.op = "search" =>
        /\ \A i \in 1..Len(resp.search.results) :
               LET r == resp.search.results[i]
               IN  /\ r.id \in DOMAIN db
                   /\ r.years_experience = db[r.id].years_experience
                   /\ r.skill_match =
                          compute_skill_match(db[r.id].skills,
                                              resp.search.req.must_have_skills)
        /\ \A i, j \in 1..Len(resp.search.results) :
               resp.search.results[i].id = resp.search.results[j].id => i = j

\* C13 witness: a search after the delete of the only resume: the index was
\* not rebuilt and hands back the deleted id, the table has no such row and
\* the response is empty.
C13_Witness ==
    /\ Searched
    /\ last_build = "empty"
    /\ faiss_index # None
    /\ SemanticIds # {}
    /\ SemanticIds \cap DOMAIN db = {}
    /\ resp.search.resumes = <<>>
    /\ resp.search.results = <<>>

-----------------------------------------------------------------------------
(* Claims about search_similar when no index exists *)

IndexOf(d) ==
    Some([xb |-> [i \in 1..Cardinality(DOMAIN d) |-> Embed(d[SortedSeq(DOMAIN d)[i]].raw_text)]])

\* C10: search_similar called while faiss_index is None returns [] without
\* raising when the table is empty; when the table is not empty it builds the
\* index first and searches it; the only failure the caller can see is
\* build_index itself raising.
C10_NoIndexIsTolerated ==
    (resp.op = "search" /\ resp.search.index_was_none) =>
        /\ resp.search.built_here
        /\ DOMAIN db = {} =>
               /\ ~resp.failed
               /\ resp.search.semantic_results = <<>>
               /\ faiss_index = None
        /\ (DOMAIN db # {} /\ last_build = "built") =>
               /\ ~resp.failed
               /\ faiss_index = IndexOf(db)
               /\ id_map = SortedSeq(DOMAIN db)
               /\ Len(resp.search.semantic_results) = resp.search.top_k * OversampleFactor
               /\ SemanticIds \subseteq DOMAIN db
        /\ resp.failed => last_build \in {"encode_raised", "commit_raised"}

\* C10 witness: a search that found no index and a stored resume, built the
\* index and returned candidates.
C10_Witness ==
    /\ resp.op = "search"
    /\ resp.search.index_was_none
    /\ DOMAIN db # {}
    /\ ~resp.failed
    /\ faiss_index # None
    /\ resp.search.semantic_results # <<>>

\* faiss_index.ntotal, 0 while there is no index
VectorCount == IF faiss_index = None THEN 0 ELSE Len(faiss_index[1].xb)

\* C12: after any sequence of build_index calls, those that return early on
\* an empty table and those that raise in encode or commit included, id_map
\* is as long as the index has vectors, and the vector at position i is the
\* embedding of the stored record whose id is id_map[i].
C12_GlobalsAligned ==
    /\ Len(id_map) = VectorCount
    /\ \A i \in 1..Len(id_map) :
           (i <= VectorCount /\ id_map[i] \in DOMAIN db) =>
               faiss_index[1].xb[i] = Embed(db[id_map[i]].raw_text)

-----------------------------------------------------------------------------
(* The pure helpers applied to arguments drawn from bounded sets *)

RECURSIVE SeqsUpTo(_, _)
SeqsUpTo(S, n) ==
    IF n = 0 THEN {<<>>}
    ELSE SeqsUpTo(S, n - 1) \cup {Append(q, x) : q \in SeqsUpTo(S, n - 1), x \in S}

SkillPool == {W_python, W_docker, W_aws}

MessageTokens ==
    {<<"1">>, <<"5">>, <<"6">>, Sp, Sp \o W_year, Sp \o W_YEARS, W_react}

ParseMessages ==
    {Concat(ts) : ts \in SeqsUpTo(MessageTokens, MaxTokens)} \cup {MsgExample, MsgPyDocker3}

InitFunctions ==
    /\ db = EmptyTable
    /\ faiss_index = None
    /\ id_map = <<>>
    /\ last_build = "none"
    /\ resp = Idle
    /\ pc = NoThreads
    /\ loc = NoThreads
    /\ built_by = NoThreads
    /\ ret = None
    /\ \/ \E skills \in SUBSET SkillPool, must \in SeqsUpTo(SkillPool, MaxListLen) :
              call = [fn |-> "compute_skill_match", skills |-> skills,
                      must_have_skills |-> must]
       \/ \E message \in ParseMessages :
              call = [fn |-> "simple_extract_requirements", message |-> message]

ApplySkillMatch ==
    /\ call.fn = "compute_skill_match"
    /\ ret = None
    /\ ret' = Some(compute_skill_match(call.skills, call.must_have_skills))
    /\ UNCHANGED <<db, faiss_index, id_map, last_build, resp, pc, loc, built_by, call>>

ApplyExtract ==
    /\ call.fn = "simple_extract_requirements"
    /\ ret = None
    /\ ret' = Some(simple_extract_requirements(call.message))
    /\ UNCHANGED <<db, faiss_index, id_map, last_build, resp, pc, loc, built_by, call>>

NextFunctions == ApplySkillMatch \/ ApplyExtract

SpecFunctions == InitFunctions /\ [][NextFunctions]_vars

SkillMatchReturned == call # <<>> /\ call.fn = "compute_skill_match" /\ ret # None

ExtractReturned == call # <<>> /\ call.fn = "simple_extract_requirements" /\ ret # None

\* C7: compute_skill_match is |required & skills| / |required| with required
\* the list as a set, exactly 1.0 for an empty list, always within [0, 1];
\* [python, docker] against {python, aws} gives 0.5.
C7_SkillMatchRatio ==
    SkillMatchReturned =>
        LET required == {call.must_have_skills[i] : i \in 1..Len(call.must_have_skills)}
            shared == {s \in required : s \in call.skills}
            num == ret[1][1]
            den == ret[1][2]
        IN  /\ den > 0
            /\ 0 <= num
            /\ num <= den
            /\ required = {} => num = den
            /\ required # {} => num * Cardinality(required) = Cardinality(shared) * den
            /\ (call.must_have_skills = <<W_python, W_docker>>
                    /\ call.skills = {W_python, W_aws}) => 2 * num = den

\* C7 witness: the ratio of a list holding a skill twice has been computed.
C7_Witness ==
    /\ SkillMatchReturned
    /\ call.must_have_skills = <<W_python, W_docker, W_python>>
    /\ call.skills = {W_python, W_aws}
    /\ 2 * ret[1][1] = ret[1][2]

YearsNamed(message) ==
    {n \in 1..15 :
        \/ Contains(DecStr(n) \o <<" ", "y", "e", "a", "r">>, Lower(message))
        \/ Contains(DecStr(n) \o <<" ", "y", "e", "a", "r", "s">>, Lower(message))}

\* C8: simple_extract_requirements returns a value for every message; its
\* min_years is the largest N in 1..15 with "N year" or "N years" in the
\* lower-cased message, 0 when there is none; the example message gives
\* [react, node] and 5.
C8_MinYearsIsLargest ==
    ExtractReturned =>
        /\ ret[1].min_years =
               (IF YearsNamed(call.message) = {} THEN 0 ELSE Max(YearsNamed(call.message)))
        /\ call.message = MsgExample =>
               ret[1] = [must_have_skills |-> <<W_react, W_node>>, min_years |-> 5]
        /\ call.message = <<>> =>
               ret[1] = [must_have_skills |-> <<>>, min_years |-> 0]

\* C8 witness: a message naming two year counts ("15 years" holds "5 years")
\* has been interpreted as the larger.
C8_Witness ==
    /\ ExtractReturned
    /\ call.message = <<"1", "5", " ", "Y", "E", "A", "R", "S">>
    /\ ret[1].min_years = 15

-----------------------------------------------------------------------------
(* The handlers on concurrent threads.  /search and /delete_resume are plain *)
(* `def` routes, which FastAPI runs on worker threads; /upload_resume runs   *)
(* on the event-loop thread.  Nothing locks faiss_index or id_map, so the    *)
(* statements of build_index and search_similar interleave.  Thread "w"      *)
(* runs the uploads and deletes, thread "s" the searches.                    *)

MaxBuilds == 2

Threads == {"w", "s"}

ThreadPool == {r \in ResumePool : r.raw_text \in {CvA, CvB}}

ThreadMessages == {MsgReact}

ThreadTopKs == {1}

NoLocals ==
    [message |-> <<>>, top_k |-> 0, index_was_none |-> FALSE,
     resumes |-> <<>>, embeddings |-> <<>>, build |-> 0,
     hits |-> <<>>, i |-> 0, results |-> <<>>,
     searched |-> FALSE, index_build |-> 0, index_complete |-> TRUE,
     id_map_builds |-> {}]

\* No build_index call has written a global yet.
NoBuilds == [count |-> 0, id_map |-> 0, faiss_index |-> 0, adds |-> {}]

InitThreads ==
    /\ db = EmptyTable
    /\ faiss_index = None
    /\ id_map = <<>>
    /\ last_build = "none"
    /\ resp = Idle
    /\ pc = [t \in Threads |-> "idle"]
    /\ loc = [t \in Threads |-> NoLocals]
    /\ built_by = NoBuilds
    /\ call = <<>>
    /\ ret = <<>>

\* Where build_index returns to: the handler's end, or line 37.
AfterBuild(t) == IF t = "s" THEN "s2" ELSE "idle"

\* upload_resume up to add_resume (its commit makes the row visible)
StartUpload(file, id) ==
    /\ pc["w"] = "idle"
    /\ built_by.count < MaxBuilds
    /\ id \in NewIds(db)
    /\ db' = add_resume(db, id, file)
    /\ pc' = [pc EXCEPT !["w"] = "dedupe"]
    /\ UNCHANGED <<faiss_index, id_map, last_build, resp, loc, built_by, call, ret>>

\* upload_resume, line 294: dedupe_resumes(db)
Dedupe ==
    /\ pc["w"] = "dedupe"
    /\ db' = dedupe_resumes(db)
    /\ pc' = [pc EXCEPT !["w"] = "b1"]
    /\ UNCHANGED <<faiss_index, id_map, last_build, resp, loc, built_by, call, ret>>

\* delete_resume, lines 410-413
StartDelete(resume_id) ==
    /\ pc["w"] = "idle"
    /\ built_by.count < MaxBuilds
    /\ resume_id \in DOMAIN db
    /\ db' = DeleteRow(db, resume_id)
    /\ pc' = [pc EXCEPT !["w"] = "b1"]
    /\ UNCHANGED <<faiss_index, id_map, last_build, resp, loc, built_by, call, ret>>

\* build_index, lines 15-19: read the table, return when it is empty
BuildRead(t) ==
    /\ pc[t] = "b1"
    /\ LET resumes == QueryAll(db)
       IN  IF resumes = <<>>
           THEN /\ pc' = [pc EXCEPT ![t] = AfterBuild(t)]
                /\ last_build' = "empty"
                /\ UNCHANGED <<loc, built_by>>
           ELSE /\ pc' = [pc EXCEPT ![t] = "b2"]
                /\ loc' = [loc EXCEPT
                              ![t].resumes = resumes,
                              ![t].embeddings =
                                  [i \in 1..Len(resumes) |-> Embed(db[resumes[i]].raw_text)],
                              ![t].build = built_by.count + 1]
                /\ built_by' = [built_by EXCEPT !.count = built_by.count + 1]
                /\ UNCHANGED last_build
    /\ UNCHANGED <<db, faiss_index, id_map, resp, call, ret>>

\* build_index, line 22: id_map = [r.id for r in resumes]
BuildSetIdMap(t) ==
    /\ pc[t] = "b2"
    /\ id_map' = loc[t].resumes
    /\ built_by' = [built_by EXCEPT !.id_map = loc[t].build]
    /\ pc' = [pc EXCEPT ![t] = "b4"]
    /\ UNCHANGED <<db, faiss_index, last_build, resp, loc, call, ret>>

\* build_index, lines 24-26: encode, faiss_index = faiss.IndexFlatIP(dim)
BuildNewIndex(t) ==
    /\ pc[t] = "b4"
    /\ faiss_index' = Some([xb |-> <<>>])
    /\ built_by' = [built_by EXCEPT !.faiss_index = loc[t].build, !.adds = {}]
    /\ pc' = [pc EXCEPT ![t] = "b5"]
    /\ UNCHANGED <<db, id_map, last_build, resp, loc, call, ret>>

\* build_index, lines 27-32: faiss_index.add(embeddings) on the index the
\* global names now, then commit and return
BuildAdd(t) ==
    /\ pc[t] = "b5"
    /\ faiss_index' = Some([xb |-> faiss_index[1].xb \o loc[t].embeddings])
    /\ built_by' = [built_by EXCEPT !.adds = built_by.adds \cup {loc[t].build}]
    /\ last_build' = "built"
    /\ loc' = [loc EXCEPT ![t].resumes = <<>>, ![t].embeddings = <<>>, ![t].build = 0]
    /\ pc' = [pc EXCEPT ![t] = AfterBuild(t)]
    /\ UNCHANGED <<db, id_map, resp, call, ret>>

\* search, lines 337-341, and search_similar, lines 35-36
StartSearch(message, top_k) ==
    /\ pc["s"] = "idle"
    /\ faiss_index = None => built_by.count < MaxBuilds
    /\ loc' = [loc EXCEPT !["s"] = [NoLocals EXCEPT !.message = message,
                                                    !.top_k = top_k,
                                                    !.index_was_none = faiss_index = None]]
    /\ pc' = [pc EXCEPT !["s"] = IF faiss_index = None THEN "b1" ELSE "s2"]
    /\ UNCHANGED <<db, faiss_index, id_map, last_build, resp, built_by, call, ret>>

\* search_similar, lines 37-38: no index, return []
SearchNoIndex ==
    /\ pc["s"] = "s2"
    /\ faiss_index = None
    /\ pc' = [pc EXCEPT !["s"] = "s5"]
    /\ UNCHANGED <<db, faiss_index, id_map, last_build, resp, loc, built_by, call, ret>>

\* search_similar, lines 37-41: query the index the global names now.  A
\* search racing an add on the same index sees the index before or after it.
SearchIndex ==
    /\ pc["s"] = "s2"
    /\ faiss_index # None
    /\ loc' = [loc EXCEPT
                  !["s"].hits = FaissSearch(faiss_index[1], Embed(loc["s"].message),
                                            loc["s"].top_k * OversampleFactor),
                  !["s"].i = 1,
                  !["s"].searched = TRUE,
                  !["s"].index_build = built_by.faiss_index,
                  !["s"].index_complete = built_by.adds = {built_by.faiss_index}]
    /\ pc' = [pc EXCEPT !["s"] = "s4"]
    /\ UNCHANGED <<db, faiss_index, id_map, last_build, resp, built_by, call, ret>>

\* search_similar, lines 43-45: one turn of the loop, id_map read anew
SearchTranslate ==
    /\ pc["s"] = "s4"
    /\ loc["s"].i <= Len(loc["s"].hits)
    /\ PyIndexOk(id_map, loc["s"].hits[loc["s"].i].idx)
    /\ loc' = [loc EXCEPT
                  !["s"].results =
                      Append(@, <<PyIndex(id_map, loc["s"].hits[loc["s"].i].idx),
                                  loc["s"].hits[loc["s"].i].score>>),
                  !["s"].i = @ + 1,
                  !["s"].id_map_builds = @ \cup {built_by.id_map}]
    /\ UNCHANGED <<db, faiss_index, id_map, last_build, resp, pc, built_by, call, ret>>

\* search_similar, line 44 raising IndexError; search, lines 385-397
SearchRaise ==
    /\ pc["s"] = "s4"
    /\ loc["s"].i <= Len(loc["s"].hits)
    /\ ~PyIndexOk(id_map, loc["s"].hits[loc["s"].i].idx)
    /\ resp' = [op |-> "search", failed |-> TRUE,
                search |-> [SearchBody(loc["s"].message, loc["s"].top_k,
                                       [result |-> Raised,
                                        built_here |-> loc["s"].index_was_none])
                            EXCEPT !.index_was_none = loc["s"].index_was_none]]
    /\ loc' = [loc EXCEPT !["s"] = NoLocals]
    /\ pc' = [pc EXCEPT !["s"] = "idle"]
    /\ UNCHANGED <<db, faiss_index, id_map, last_build, built_by, call, ret>>

\* search_similar, line 46
SearchLoopEnd ==
    /\ pc["s"] = "s4"
    /\ loc["s"].i > Len(loc["s"].hits)
    /\ pc' = [pc EXCEPT !["s"] = "s5"]
    /\ UNCHANGED <<db, faiss_index, id_map, last_build, resp, loc, built_by, call, ret>>

\* search, lines 342-384
SearchRespond ==
    /\ pc["s"] = "s5"
    /\ resp' = [op |-> "search", failed |-> FALSE,
                search |-> [SearchBody(loc["s"].message, loc["s"].top_k,
                                       [result |-> loc["s"].results,
                                        built_here |-> loc["s"].index_was_none])
                            EXCEPT !.index_was_none = loc["s"].index_was_none]]
    /\ loc' = [loc EXCEPT !["s"] = NoLocals]
    /\ pc' = [pc EXCEPT !["s"] = "idle"]
    /\ UNCHANGED <<db, faiss_index, id_map, last_build, built_by, call, ret>>

NextThreads ==
    \/ \E file \in ThreadPool, id \in 1..MaxId : StartUpload(file, id)
    \/ Dedupe
    \/ \E resume_id \in 1..MaxId : StartDelete(resume_id)
    \/ \E t \in Threads : BuildRead(t)
    \/ \E t \in Threads : BuildSetIdMap(t)
    \/ \E t \in Threads : BuildNewIndex(t)
    \/ \E t \in Threads : BuildAdd(t)
    \/ \E message \in ThreadMessages, top_k \in ThreadTopKs : StartSearch(message, top_k)
    \/ SearchNoIndex
    \/ SearchIndex
    \/ SearchTranslate
    \/ SearchRaise
    \/ SearchLoopEnd
    \/ SearchRespond

SpecThreads == InitThreads /\ [][NextThreads]_vars

\* C3: a search never observes a partly rebuilt index: the index it queries
\* holds exactly the vectors of the build that created it, and every id_map
\* it reads was written by that same build.
C3_RebuildIsAtomic ==
    loc["s"].searched =>
        /\ loc["s"].index_complete
        /\ \A b \in loc["s"].id_map_builds : b = loc["s"].index_build

====
